---- MODULE Spec2Model ----
(***************************************************************************)
(* A model of ice-scraper: the bolt store of day buckets, session buckets  *)
(* and snapshot sequences, the change detection of updateEvent, the        *)
(* cancellation scan of checkEventsForDay, the calendar upsert of          *)
(* optionallyUpdateCalendar and the bearer token of GAuthenticator.        *)
(*                                                                         *)
(* Time is counted in minutes since midnight of day 0.  Day keys           *)
(* ("2019-03-27") are day numbers: the zero-padded format orders them as   *)
(* the numbers do.  Session identifiers are byte strings.                  *)
(***************************************************************************)
EXTENDS Integers, Sequences, FiniteSets, TLC

VARIABLES
    now,            \* time.Now(), minutes since day 0 00:00
    db,             \* the committed bolt database: day key -> day bucket
    tx,             \* the open bolt.Tx: the working copy of db
    pc,             \* position of the running command, "idle" between runs
    cmd,            \* os.Args[1] of the running command
    result,         \* how the command that just exited ended: "ok", "error", "panic"
    passes,         \* commands started so far
    environ,        \* the environment of the runs: credentials file and token file
    GCalClient,     \* setupGcalSync: "nil", "nilauth" (client around a nil authenticator), "auth"
    ga,             \* the GAuthenticator: currentToken, tokenValidity, tokenFile
    tokenStore,     \* the token file on disk
    calendar,       \* the calendar service: the ids of the events it holds
    todayKey,       \* todayKey of the running command
    curDay,         \* the day bucket under the root cursor (b in checkEventsForDay)
    evCtx,          \* EventContext{Day, Product}
    prodIdx,        \* index into productsAvailable
    evs,            \* the fetched records not yet passed to updateEvent
    sessionIdsSeen, \* sessionIdsSeen of checkEventsForDay
    scanSid,        \* the cancellation scan's cursor over the events bucket
    month,          \* checkForNewDays: the month being checked, 1 or 2
    lastCall,       \* history: the last updateEvent call and the requests it made
    txHist,         \* history: per session, the updateEvent calls of the open transaction
    dbHist,         \* history: per session, the updateEvent calls of committed passes
    conv,           \* two makeGCalEvent conversions side by side: their inputs and Ids
    dbBefore,       \* history: the committed database when the running command began
    trip            \* RoundTrip in two successive processes: inputs and what came of them

vars == <<now, db, tx, pc, cmd, result, passes, environ, GCalClient, ga, tokenStore, calendar,
          todayKey, curDay, evCtx, prodIdx, evs, sessionIdsSeen, scanSid, month,
          lastCall, txHist, dbHist, conv, dbBefore, trip>>

(***************************************************************************)
(* Bounds of the model                                                     *)
(***************************************************************************)
MaxPasses == 3          \* commands run
MaxDay == 0             \* day keys 0..MaxDay
MaxFetch == 1           \* records in one fetched list
MaxProducts == 1        \* products on one day
MaxIdLen == 2           \* bytes of a session identifier handed to makeGCalEvent

(***************************************************************************)
(* Program constants                                                       *)
(***************************************************************************)
soonThreshold == 5      \* time.Minute * 5
MinutesPerDay == 24 * 60

DayKeys == 0..MaxDay
DayOf(t) == t \div MinutesPerDay

Max(S) == CHOOSE x \in S : \A y \in S : y <= x
Min(S) == CHOOSE x \in S : \A y \in S : x <= y

(***************************************************************************)
(* Byte strings: bolt orders keys bytewise                                 *)
(***************************************************************************)
BytesLess(a, b) ==
    \E i \in 1..(Len(a) + 1) :
        /\ \A j \in 1..(i - 1) : j <= Len(b) /\ a[j] = b[j]
        /\ \/ i > Len(a) /\ i <= Len(b)
           \/ i <= Len(a) /\ i <= Len(b) /\ a[i] < b[i]

(***************************************************************************)
(* base32.HexEncoding.WithPadding(base32.NoPadding) and strings.ToLower    *)
(***************************************************************************)
encodeHex == <<"0", "1", "2", "3", "4", "5", "6", "7", "8", "9",
               "A", "B", "C", "D", "E", "F", "G", "H", "I", "J", "K",
               "L", "M", "N", "O", "P", "Q", "R", "S", "T", "U", "V">>

UpperChars == <<"A", "B", "C", "D", "E", "F", "G", "H", "I", "J", "K", "L", "M",
                "N", "O", "P", "Q", "R", "S", "T", "U", "V", "W", "X", "Y", "Z">>
LowerChars == <<"a", "b", "c", "d", "e", "f", "g", "h", "i", "j", "k", "l", "m",
                "n", "o", "p", "q", "r", "s", "t", "u", "v", "w", "x", "y", "z">>

Pow2(n) == IF n = 0 THEN 1 ELSE IF n = 1 THEN 2 ELSE IF n = 2 THEN 4
           ELSE IF n = 3 THEN 8 ELSE IF n = 4 THEN 16 ELSE IF n = 5 THEN 32
           ELSE IF n = 6 THEN 64 ELSE 128

\* bit j (1 = most significant bit of the first byte) of a byte string, 0 past its end
BitAt(bytes, j) ==
    IF j > 8 * Len(bytes) THEN 0
    ELSE (bytes[((j - 1) \div 8) + 1] \div Pow2(7 - ((j - 1) % 8))) % 2

EncodeToString(bytes) ==
    [k \in 1..((8 * Len(bytes) + 4) \div 5) |->
        encodeHex[1 + 16 * BitAt(bytes, 5 * k - 4) + 8 * BitAt(bytes, 5 * k - 3)
                    + 4 * BitAt(bytes, 5 * k - 2) + 2 * BitAt(bytes, 5 * k - 1)
                    + BitAt(bytes, 5 * k)]]

ToLowerChar(c) ==
    IF \E i \in 1..Len(UpperChars) : UpperChars[i] = c
    THEN LowerChars[CHOOSE i \in 1..Len(UpperChars) : UpperChars[i] = c]
    ELSE c

ToLower(s) == [k \in 1..Len(s) |-> ToLowerChar(s[k])]

(***************************************************************************)
(* Records: EventInfo (booking-api.go) and timestampedEventInfo            *)
(***************************************************************************)
SessionIds == {<<65>>, <<97>>}          \* "A" and "a"
ProductIds == {"p1", "p2"}

EventInfoFields == {"SessionId", "ProductName", "Location", "StartTime", "EndTime",
                    "TotalSpaces", "AvailableSpaces", "CapacityFreeAcademy",
                    "AvailableFreeSpaces"}

EventInfo(sid, start, avail) ==
    [SessionId |-> sid, ProductName |-> "Practice Ice", Location |-> "Pad 1",
     StartTime |-> start, EndTime |-> "10:00:00",
     TotalSpaces |-> 20, AvailableSpaces |-> avail,
     CapacityFreeAcademy |-> 10, AvailableFreeSpaces |-> 4]

\* the records the booking site may return for one session
EventInfos ==
    { EventInfo(sid, "09:00:00", 5) : sid \in SessionIds } \cup
    { EventInfo(sid, "09:00:00", 3) : sid \in SessionIds } \cup
    { EventInfo(sid, "9am", 5) : sid \in SessionIds }

\* timestampedEventInfo{ev, ts, cancelled}
timestampedEventInfo(ev, ts, cancelled) ==
    [SessionId |-> ev.SessionId, ProductName |-> ev.ProductName,
     Location |-> ev.Location, StartTime |-> ev.StartTime, EndTime |-> ev.EndTime,
     TotalSpaces |-> ev.TotalSpaces, AvailableSpaces |-> ev.AvailableSpaces,
     CapacityFreeAcademy |-> ev.CapacityFreeAcademy,
     AvailableFreeSpaces |-> ev.AvailableFreeSpaces,
     UpdatedAt |-> ts, Cancelled |-> cancelled]

\* the zero value timestampedEventInfo{}
ZeroEvent ==
    [SessionId |-> <<>>, ProductName |-> "", Location |-> "", StartTime |-> "",
     EndTime |-> "", TotalSpaces |-> 0, AvailableSpaces |-> 0,
     CapacityFreeAcademy |-> 0, AvailableFreeSpaces |-> 0,
     UpdatedAt |-> 0, Cancelled |-> FALSE]

\* lastEv.EventInfo: the embedded struct
EmbeddedEventInfo(tev) == [f \in EventInfoFields |-> tev[f]]

(***************************************************************************)
(* encoding/json.  A document is well-formed or not; an object holds the   *)
(* members that were written.  Unmarshal into a struct leaves a field at   *)
(* its zero value when the object has no such member.                      *)
(***************************************************************************)
Marshal(v) == [wellFormed |-> TRUE, members |-> v]

UnmarshalEvent(doc) ==
    IF ~doc.wellFormed
    THEN [err |-> "decode", val |-> ZeroEvent]
    ELSE [err |-> "",
          val |-> [f \in DOMAIN ZeroEvent |->
                      IF f \in DOMAIN doc.members THEN doc.members[f] ELSE ZeroEvent[f]]]

\* len(json.Marshal(prods)) for a list of product ids: ["p1","p2"]
JsonLen(prods) ==
    IF Len(prods) = 0 THEN 2
    ELSE 2 + (Len(prods) - 1) + Len(prods) * 2
           + LET RECURSIVE sum(_)
                 sum(i) == IF i = 0 THEN 0 ELSE Len(prods[i]) + sum(i - 1)
             IN sum(Len(prods))

(***************************************************************************)
(* The bolt store.  A session bucket holds its sequence counter and its    *)
(* key/value pairs; an events bucket holds session buckets; a day bucket   *)
(* holds the "products" value and the "events" bucket.                     *)
(***************************************************************************)
NoBucket == [exists |-> FALSE, sequence |-> 0, kv |-> <<>>]
NewBucket == [exists |-> TRUE, sequence |-> 0, kv |-> <<>>]

NoProducts == [present |-> FALSE, list |-> <<>>]
NoEvents == [sid \in SessionIds |-> NoBucket]
NoDay == [exists |-> FALSE, products |-> NoProducts, hasEvents |-> FALSE,
          events |-> NoEvents]
NewDay == [exists |-> TRUE, products |-> NoProducts, hasEvents |-> FALSE,
           events |-> NoEvents]

\* bucket.NextSequence(): the incremented counter
NextSequence(b) == b.sequence + 1

\* bucket.Put(key, value)
Put(b, key, value) == [b EXCEPT !.kv = (key :> value) @@ b.kv]

\* b.Cursor().Last(): the greatest key, 0 standing for k == nil
CursorLast(b) == IF DOMAIN b.kv = {} THEN 0 ELSE Max(DOMAIN b.kv)

\* eventsBucket.CreateBucketIfNotExists(sid)
CreateBucketIfNotExists(events, sid) ==
    IF events[sid].exists THEN events ELSE [events EXCEPT ![sid] = NewBucket]

\* tx.Cursor().Seek(key): the first day key >= key, -1 standing for nil
Seek(root, key) ==
    LET later == { d \in DayKeys : root[d].exists /\ d >= key }
    IN IF later = {} THEN -1 ELSE Min(later)

\* c.Next() after day: the first day key > day, -1 standing for nil
CursorNext(root, day) == Seek(root, day + 1)

\* sess.First() / sess.Next() over the events bucket, <<>> standing for nil
SessionsAfter(events, sid) ==
    { s \in SessionIds : events[s].exists /\ (sid = <<>> \/ BytesLess(sid, s)) }
SessionCursorNext(events, sid) ==
    IF SessionsAfter(events, sid) = {} THEN <<>>
    ELSE CHOOSE s \in SessionsAfter(events, sid) :
            \A t \in SessionsAfter(events, sid) : t = s \/ BytesLess(s, t)

(***************************************************************************)
(* getMostRecentDetails                                                    *)
(***************************************************************************)
getMostRecentDetails(sessionBucket) ==
    IF CursorLast(sessionBucket) = 0
    THEN [err |-> "ErrNoSuchEvent", val |-> ZeroEvent]
    ELSE UnmarshalEvent(sessionBucket.kv[CursorLast(sessionBucket)])

(***************************************************************************)
(* parseTimeLocally: the reference layout is "2006-01-02 15:04:05".  The   *)
(* machine's zone and Europe/London are taken to coincide.                 *)
(***************************************************************************)
ParseClock(tim) ==
    CASE tim = "09:00:00" -> [err |-> FALSE, minutes |-> 9 * 60]
      [] tim = "10:00:00" -> [err |-> FALSE, minutes |-> 10 * 60]
      [] OTHER -> [err |-> TRUE, minutes |-> 0]

parseTimeLocally(day, tim) ==
    IF ParseClock(tim).err THEN [err |-> TRUE, t |-> 0]
    ELSE [err |-> FALSE, t |-> day * MinutesPerDay + ParseClock(tim).minutes]

(***************************************************************************)
(* GAuthenticator: the bearer token and its renewal                        *)
(***************************************************************************)
NoToken == [currentToken |-> "", tokenValidity |-> 0, tokenFile |-> ""]
NoStore == [exists |-> FALSE, wellFormed |-> FALSE, Token |-> "", Validity |-> 0,
            writable |-> TRUE]

\* what the token endpoint may answer to one exchange; expires_in is counted in
\* minutes, the unit of the clock
NoResponse == [kind |-> "none", Error |-> "", TokenType |-> "", AccessToken |-> "",
               ExpiresIn |-> 0]
TokenResponses ==
    { [kind |-> "transport", Error |-> "", TokenType |-> "", AccessToken |-> "",
       ExpiresIn |-> 0],
      [kind |-> "json", Error |-> "invalid_grant", TokenType |-> "", AccessToken |-> "",
       ExpiresIn |-> 0],
      [kind |-> "json", Error |-> "", TokenType |-> "Bearer", AccessToken |-> "ya29",
       ExpiresIn |-> 60] }

\* getStoredToken(file)
getStoredToken(store) ==
    IF ~store.exists \/ ~store.wellFormed
    THEN [Token |-> "", Validity |-> 0]
    ELSE [Token |-> store.Token, Validity |-> store.Validity]

\* storeToken(file, token, validity), when the file can be created and written
storeToken(token, validity) ==
    [exists |-> TRUE, wellFormed |-> TRUE, Token |-> token, Validity |-> validity,
     writable |-> TRUE]

\* NewAuthenticator(credFile, tokenFile), when the credentials can be read
NewAuthenticator(tokenFile, store) ==
    IF tokenFile # ""
    THEN [currentToken |-> getStoredToken(store).Token,
          tokenValidity |-> getStoredToken(store).Validity,
          tokenFile |-> tokenFile]
    ELSE [NoToken EXCEPT !.tokenFile = tokenFile]

\* ga.validToken(): tokenValidity.Before(time.Now()) is a strict comparison
validToken(g, t) == ~(g.currentToken = "" \/ g.tokenValidity < t)

\* ga.getToken(): the authenticator, the token file and the error it returns
getToken(g, store, t, resp) ==
    IF resp.kind = "transport"
    THEN [ga |-> g, store |-> store, err |-> "requesting access token"]
    ELSE IF resp.kind # "json"
    THEN [ga |-> g, store |-> store, err |-> "parsing token response"]
    ELSE IF resp.Error # ""
    THEN [ga |-> g, store |-> store, err |-> "no-access-token"]
    ELSE IF resp.TokenType # "Bearer"
    THEN [ga |-> g, store |-> store, err |-> "unknown-token-type"]
    ELSE LET g2 == [g EXCEPT !.currentToken = resp.AccessToken,
                             !.tokenValidity = t + resp.ExpiresIn]
         IN IF g.tokenFile # "" /\ ~store.writable
            THEN \* os.Create fails: the fields are already assigned
                 [ga |-> g2, store |-> store, err |-> "can't store access token"]
            ELSE [ga |-> g2,
                  store |-> IF g.tokenFile # ""
                            THEN storeToken(g2.currentToken, g2.tokenValidity)
                            ELSE store,
                  err |-> ""]

\* ga.RoundTrip(req), up to the call of NextLayer.RoundTrip
RoundTrip(g, store, t, resp) ==
    LET renewed(r) == [ga |-> r.ga, store |-> r.store, err |-> r.err,
                       bearer |-> r.ga.currentToken]
    IN IF ~validToken(g, t)
       THEN renewed(getToken(g, store, t, resp))
       ELSE [ga |-> g, store |-> store, err |-> "", bearer |-> g.currentToken]

(***************************************************************************)
(* The calendar event and the calendar service                             *)
(***************************************************************************)
\* makeProductLink(productId)
makeProductLink(productId) == <<"ice-sports-details!", productId>>

\* a faulty variant: the encoder's output is used as it is, not lower-cased
GCalId_NoLower(sessionId) == EncodeToString(sessionId)

\* the Id of makeGCalEvent
GCalId(sessionId) == ToLower(EncodeToString(sessionId))

NoGCalEvent ==
    [Id |-> <<>>, Summary |-> "", Location |-> "",
     Description |-> [academy |-> 0, other |-> 0, link |-> <<>>, updated |-> 0],
     Start |-> 0, End |-> 0]

\* makeGCalEvent(ev, evCtx, ts)
makeGCalEvent(ev, ctx, ts) ==
    LET newEvent == [Id |-> GCalId(ev.SessionId),
                     Summary |-> ev.ProductName,
                     Location |-> ev.Location,
                     Description |->
                        [academy |-> ev.CapacityFreeAcademy - ev.AvailableFreeSpaces,
                         other |-> ev.TotalSpaces - ev.AvailableSpaces,
                         link |-> makeProductLink(ctx.Product),
                         updated |-> ts],
                     Start |-> 0, End |-> 0]
        startTime == parseTimeLocally(ctx.Day, ev.StartTime)
        endTime == parseTimeLocally(ctx.Day, ev.EndTime)
    IN IF startTime.err THEN [err |-> "parsing event start time", ev |-> NoGCalEvent]
       ELSE IF endTime.err THEN [err |-> "parsng event end time", ev |-> NoGCalEvent]
       ELSE [err |-> "", ev |-> [newEvent EXCEPT !.Start = startTime.t, !.End = endTime.t]]


\* what the service may answer to a forwarded PUT of an event id
UpdateOutcomes(cal, id) ==
    {"neterr", "garbage", "errjson"} \cup
    (IF id \in cal THEN {"ok"} ELSE {"notfound"})

\* what the service may answer to a forwarded POST
InsertOutcomes == {"neterr", "garbage", "errjson", "ok"}

\* one request through GCalClient: c.Do(req) of updateCalendarEvent, c.Post of
\* insertCalendarEvent.  The error is what the caller gets back.
Request(method, client, g, store, cal, t, calEv, phase, resp, outcome) ==
    IF client = "nilauth"
    THEN \* the Transport is a nil *GAuthenticator: RoundTrip dereferences it
         [panic |-> TRUE, err |-> "panic", ga |-> g, store |-> store, calendar |-> cal,
          req |-> [method |-> method, id |-> calEv.Id, ev |-> calEv, forwarded |-> FALSE,
                   outcome |-> "panic", phase |-> phase]]
    ELSE LET sent(rt) ==
                IF rt.err # ""
                THEN [panic |-> FALSE, err |-> rt.err, ga |-> rt.ga, store |-> rt.store,
                      calendar |-> cal,
                      req |-> [method |-> method, id |-> calEv.Id, ev |-> calEv,
                               forwarded |-> FALSE, outcome |-> "renewfail",
                               phase |-> phase]]
                ELSE [panic |-> FALSE,
                      err |-> CASE outcome = "neterr" -> "transport"
                                [] outcome = "notfound" /\ method = "PUT" -> "ErrNotFound"
                                [] outcome = "garbage" -> "parsing event"
                                [] OTHER -> "",
                      ga |-> rt.ga, store |-> rt.store,
                      calendar |-> IF outcome = "ok" THEN cal \cup {calEv.Id} ELSE cal,
                      req |-> [method |-> method, id |-> calEv.Id, ev |-> calEv,
                               forwarded |-> TRUE, outcome |-> outcome, phase |-> phase]]
         IN sent(RoundTrip(g, store, t, resp))

\* updateCalendarEvent(c, calendarId, ev)
updateCalendarEvent(client, g, store, cal, t, calEv, phase, resp, outcome) ==
    Request("PUT", client, g, store, cal, t, calEv, phase, resp, outcome)

\* insertCalendarEvent(c, calendarId, ev)
insertCalendarEvent(client, g, store, cal, t, calEv, phase, resp, outcome) ==
    Request("POST", client, g, store, cal, t, calEv, phase, resp, outcome)

\* a faulty variant: the insert is tried after any failed update, not only after
\* ErrNotFound
optionallyUpdateCalendar_InsertOnAnyError(client, g, store, cal, t, ev, ctx, ts, phase, resp1, upd, resp2, ins) ==
    LET quiet == [panic |-> FALSE, reqs |-> <<>>, ga |-> g, store |-> store,
                  calendar |-> cal, failed |-> FALSE]
        inserted(u, i) ==
            [panic |-> i.panic, reqs |-> <<u.req, i.req>>, ga |-> i.ga, store |-> i.store,
             calendar |-> i.calendar, failed |-> i.err # ""]
        updated(calEv, u) ==
            IF u.err # "" /\ ~u.panic
            THEN inserted(u, insertCalendarEvent(client, u.ga, u.store, u.calendar, t,
                                                 calEv.ev, phase, resp2, ins))
            ELSE [panic |-> u.panic, reqs |-> <<u.req>>, ga |-> u.ga, store |-> u.store,
                  calendar |-> u.calendar, failed |-> u.err # ""]
        made(calEv) ==
            IF calEv.err # "" THEN [quiet EXCEPT !.failed = TRUE]
            ELSE updated(calEv, updateCalendarEvent(client, g, store, cal, t, calEv.ev,
                                                    phase, resp1, upd))
    IN IF client = "nil" THEN quiet
       ELSE made(makeGCalEvent(ev, ctx, ts))

\* optionallyUpdateCalendar(ev, evCtx, ts): the requests it makes, in order, and
\* the state it leaves.  failed: "Calendar event update failed" was logged.
optionallyUpdateCalendar(client, g, store, cal, t, ev, ctx, ts, phase, resp1, upd, resp2, ins) ==
    LET quiet == [panic |-> FALSE, reqs |-> <<>>, ga |-> g, store |-> store,
                  calendar |-> cal, failed |-> FALSE]
        inserted(u, i) ==
            [panic |-> i.panic, reqs |-> <<u.req, i.req>>, ga |-> i.ga, store |-> i.store,
             calendar |-> i.calendar, failed |-> i.err # ""]
        updated(calEv, u) ==
            IF u.err = "ErrNotFound"
            THEN inserted(u, insertCalendarEvent(client, u.ga, u.store, u.calendar, t,
                                                 calEv.ev, phase, resp2, ins))
            ELSE [panic |-> u.panic, reqs |-> <<u.req>>, ga |-> u.ga, store |-> u.store,
                  calendar |-> u.calendar, failed |-> u.err # ""]
        made(calEv) ==
            IF calEv.err # "" THEN [quiet EXCEPT !.failed = TRUE]
            ELSE updated(calEv, updateCalendarEvent(client, g, store, cal, t, calEv.ev,
                                                    phase, resp1, upd))
    IN IF client = "nil" THEN quiet
       ELSE made(makeGCalEvent(ev, ctx, ts))

(***************************************************************************)
(* updateEvent                                                             *)
(***************************************************************************)
\* a faulty variant: the timestamp is compared too, as comparing the whole
\* records would
SameDetails_WithTimestamp(ev, lastEv) ==
    /\ ev.ProductName = lastEv.ProductName
    /\ ev.Location = lastEv.Location
    /\ ev.StartTime = lastEv.StartTime
    /\ ev.EndTime = lastEv.EndTime
    /\ ev.TotalSpaces = lastEv.TotalSpaces
    /\ ev.AvailableSpaces = lastEv.AvailableSpaces
    /\ ev.CapacityFreeAcademy = lastEv.CapacityFreeAcademy
    /\ ev.AvailableFreeSpaces = lastEv.AvailableFreeSpaces
    /\ ev.Cancelled = lastEv.Cancelled
    /\ ev.UpdatedAt = lastEv.UpdatedAt

\* a faulty variant: the available spaces are left out of the comparison
SameDetails_NoSpaces(ev, lastEv) ==
    /\ ev.ProductName = lastEv.ProductName
    /\ ev.Location = lastEv.Location
    /\ ev.StartTime = lastEv.StartTime
    /\ ev.EndTime = lastEv.EndTime
    /\ ev.TotalSpaces = lastEv.TotalSpaces
    /\ ev.CapacityFreeAcademy = lastEv.CapacityFreeAcademy
    /\ ev.AvailableFreeSpaces = lastEv.AvailableFreeSpaces
    /\ ev.Cancelled = lastEv.Cancelled

\* a faulty variant: the cancelled flag is left out of the comparison
SameDetails_NoCancelled(ev, lastEv) ==
    /\ ev.ProductName = lastEv.ProductName
    /\ ev.Location = lastEv.Location
    /\ ev.StartTime = lastEv.StartTime
    /\ ev.EndTime = lastEv.EndTime
    /\ ev.TotalSpaces = lastEv.TotalSpaces
    /\ ev.AvailableSpaces = lastEv.AvailableSpaces
    /\ ev.CapacityFreeAcademy = lastEv.CapacityFreeAcademy
    /\ ev.AvailableFreeSpaces = lastEv.AvailableFreeSpaces

\* the comparison of updateEvent: no need to write the new event
SameDetails(ev, lastEv) ==
    /\ ev.ProductName = lastEv.ProductName
    /\ ev.Location = lastEv.Location
    /\ ev.StartTime = lastEv.StartTime
    /\ ev.EndTime = lastEv.EndTime
    /\ ev.TotalSpaces = lastEv.TotalSpaces
    /\ ev.AvailableSpaces = lastEv.AvailableSpaces
    /\ ev.CapacityFreeAcademy = lastEv.CapacityFreeAcademy
    /\ ev.AvailableFreeSpaces = lastEv.AvailableFreeSpaces
    /\ ev.Cancelled = lastEv.Cancelled

\* a faulty variant: the event info is saved under the latest key again
AppendSnapshot_InPlace(b, ev) ==
    Put(b, IF DOMAIN b.kv = {} THEN 1 ELSE CursorLast(b), Marshal(ev))

\* the next key in the sequence, and the event info saved under it
AppendSnapshot(b, ev) ==
    LET id == NextSequence(b)
    IN Put([b EXCEPT !.sequence = id], id, Marshal(ev))

\* a faulty variant: the calendar is synchronised before the comparison, so
\* also for a record that has not changed
updateEvent_SyncUnchanged(events, ctx, ev, client, g, store, cal, t, phase, resp1, upd, resp2, ins) ==
    LET sid == ev.SessionId
        quiet == [panic |-> FALSE, reqs |-> <<>>, ga |-> g, store |-> store,
                  calendar |-> cal, failed |-> FALSE]
    IN IF sid = <<>>
       THEN [err |-> "Can't create bucket for session", action |-> "Error",
             events |-> events, sync |-> quiet]
       ELSE LET compared(created, lastEv, sync) ==
                    IF lastEv.err = "" /\ SameDetails(ev, lastEv.val)
                    THEN [err |-> "", action |-> "Unchanged", events |-> created,
                          sync |-> sync]
                    ELSE [err |-> "",
                          action |-> IF lastEv.err = "" THEN "Updated" ELSE "Created",
                          events |-> IF sync.panic THEN created
                                     ELSE [created EXCEPT ![sid] = AppendSnapshot(@, ev)],
                          sync |-> sync]
                opened(created) ==
                    compared(created, getMostRecentDetails(created[sid]),
                             optionallyUpdateCalendar(client, g, store, cal, t,
                                                      EmbeddedEventInfo(ev), ctx,
                                                      ev.UpdatedAt, phase,
                                                      resp1, upd, resp2, ins))
            IN opened(CreateBucketIfNotExists(events, sid))

\* updateEvent(eventsBucket, evCtx, ev): the events bucket it leaves, the error it
\* returns, and what it did: "Created", "Updated", "Unchanged" or "Error"
updateEvent(events, ctx, ev, client, g, store, cal, t, phase, resp1, upd, resp2, ins) ==
    LET sid == ev.SessionId
        quiet == [panic |-> FALSE, reqs |-> <<>>, ga |-> g, store |-> store,
                  calendar |-> cal, failed |-> FALSE]
    IN IF sid = <<>>
       THEN \* CreateBucketIfNotExists: bucket name required
            [err |-> "Can't create bucket for session", action |-> "Error",
             events |-> events, sync |-> quiet]
       ELSE LET written(created, lastEv, sync) ==
                    [err |-> "",
                     action |-> IF lastEv.err = "" THEN "Updated" ELSE "Created",
                     events |-> IF sync.panic THEN created
                                ELSE [created EXCEPT ![sid] = AppendSnapshot(@, ev)],
                     sync |-> sync]
                compared(created, lastEv) ==
                    IF lastEv.err = "" /\ SameDetails(ev, lastEv.val)
                    THEN [err |-> "", action |-> "Unchanged", events |-> created,
                          sync |-> quiet]
                    ELSE written(created, lastEv,
                                 optionallyUpdateCalendar(client, g, store, cal, t,
                                                          EmbeddedEventInfo(ev), ctx,
                                                          ev.UpdatedAt, phase,
                                                          resp1, upd, resp2, ins))
                opened(created) == compared(created, getMostRecentDetails(created[sid]))
            IN opened(CreateBucketIfNotExists(events, sid))

(***************************************************************************)
(* History of the updateEvent calls, kept for the properties               *)
(***************************************************************************)
\* the nine comparable fields of a snapshot
ComparableFields == {"ProductName", "Location", "StartTime", "EndTime", "TotalSpaces",
                     "AvailableSpaces", "CapacityFreeAcademy", "AvailableFreeSpaces",
                     "Cancelled"}
Comparable(ev) == [f \in ComparableFields |-> ev[f]]

NoCall == [day |-> -1, ctxDay |-> -1, sid |-> <<>>, kind |-> "none", action |-> "none",
           client |-> "nil", reqs |-> <<>>, syncFailed |-> FALSE,
           StartTime |-> "", EndTime |-> "",
           panic |-> FALSE, err |-> "", pass |-> 0, keysBefore |-> {}, keysAfter |-> {},
           product |-> "", dwi |-> <<>>]

NoHist == [d \in DayKeys |-> [sid \in SessionIds |->
              [n |-> 0, last |-> Comparable(ZeroEvent), pending |-> FALSE]]]

\* the history of a session after a call with record ev, given its bucket before
HistAfter(h, before, ev, r) ==
    LET latest == getMostRecentDetails(before)
        differs == latest.err # "" \/ Comparable(latest.val) # Comparable(ev)
    IN [n |-> IF differs THEN h.n + 1 ELSE h.n,
        last |-> Comparable(ev),
        pending |-> IF r.action \in {"Created", "Updated"} THEN r.sync.failed
                    ELSE h.pending]

(***************************************************************************)
(* Inputs                                                                  *)
(***************************************************************************)
\* the instants at which the clock is read
Instants == {8 * 60 + 58, 9 * 60 + 1}

\* getEventsInfo: an error, or a list of records
RECURSIVE ListsUpTo(_, _)
ListsUpTo(S, n) ==
    IF n = 0 THEN {<<>>}
    ELSE ListsUpTo(S, n - 1) \cup
         { Append(l, x) : l \in { m \in ListsUpTo(S, n - 1) : Len(m) = n - 1 }, x \in S }

FetchedRecords == EventInfos \cup {EventInfo(<<>>, "09:00:00", 5)}
FetchOutcomes ==
    {[err |-> TRUE, evs |-> <<>>]} \cup
    { [err |-> FALSE, evs |-> l] : l \in ListsUpTo(FetchedRecords, MaxFetch) }

\* a booking site whose two sessions start an hour apart
StaggeredRecords == {EventInfo(<<65>>, "09:00:00", 5), EventInfo(<<97>>, "10:00:00", 5)}
Served(site) == IF site = "staggered" THEN StaggeredRecords ELSE FetchedRecords
FetchOutcomesAt(site) ==
    IF site = "practice" THEN FetchOutcomes
    ELSE {[err |-> TRUE, evs |-> <<>>]} \cup
         { [err |-> FALSE, evs |-> l] : l \in ListsUpTo(Served(site), MaxFetch) }

\* a clock that is also read at the very minute the 09:00:00 sessions start
InstantsOf(clock) == IF clock = "boundary" THEN Instants \cup {9 * 60} ELSE Instants

\* a clock that is read two days before the first day the store may hold
EarlyDay == 0 - 2
EarlyInstants == { EarlyDay * MinutesPerDay + t : t \in Instants }
InstantsAt(clock) == IF clock = "early" THEN EarlyInstants ELSE InstantsOf(clock)

\* checkIceCalendar: DaysWithIce, a map from days to the products found on them
ProductLists == { SubSeq(<<"p1", "p2", "p3">>, 1, n) : n \in 1..MaxProducts }
DaysWithIce == UNION { [D -> ProductLists] : D \in SUBSET DayKeys }

\* a calendar page on which a day's products come in either order, and one
\* product may stand in for the other
ReshuffledLists == {<<"p1">>, <<"p2">>, <<"p1", "p2">>, <<"p2", "p1">>}
DaysWithIceAt(site) ==
    IF site = "reshuffled"
    THEN UNION { [D -> ReshuffledLists] : D \in SUBSET DayKeys }
    ELSE DaysWithIce

\* the records, contexts and timestamps handed to makeGCalEvent
IdBytes == {65, 97, 255}
SessionIdInputs == ListsUpTo(IdBytes, MaxIdLen)
ConvInputs ==
    [sid : SessionIdInputs, avail : {5, 3}, day : {0, 1}, product : ProductIds,
     ts : Instants]
\* the record of the latest RoundTrip, for the properties: the process that made
\* it, what validToken said, the answer of the token endpoint if one was asked,
\* what RoundTrip returned, and the authenticator the process before left behind
NoAnswer == [kind |-> "none", status |-> 0, Error |-> "", TokenType |-> "",
             AccessToken |-> "", ExpiresIn |-> 0]
NoTrip == [process |-> 0, phase |-> "none", valid |-> FALSE, resp |-> NoAnswer,
           err |-> "", forwarded |-> FALSE, bearer |-> "", renewed |-> FALSE,
           before |-> NoToken, left |-> NoToken, leftRenewed |-> FALSE]
NoConv == [done |-> FALSE, a |-> <<>>, b |-> <<>>, idA |-> <<>>, idB |-> <<>>]
ConvStarts ==
    { [NoConv EXCEPT !.a = [sid |-> x, avail |-> 5, day |-> 0, product |-> "p1",
                            ts |-> Min(Instants)],
                     !.b = y] : x \in SessionIdInputs, y \in ConvInputs }

\* the credentials and token file of setupGcalSync's environment
\* and, of the world around it, what the booking site serves (site) and when
\* the clock is read (clock)
Environments ==
    {[client |-> "nil", tokenFile |-> "", site |-> "practice", clock |-> "coarse"],
     [client |-> "nilauth", tokenFile |-> "", site |-> "practice", clock |-> "coarse"],
     [client |-> "auth", tokenFile |-> "token.json", site |-> "practice",
      clock |-> "coarse"]}

(***************************************************************************)
(* The state at the start: a database that is empty or holds the days a    *)
(* first check-calendar run added, no token file, an empty calendar.  The  *)
(* environment (credentials file, token file) is the same for every run.   *)
(***************************************************************************)
InitialStores == { [d \in DayKeys |-> IF d \in DOMAIN dwi
                                      THEN [NewDay EXCEPT !.products =
                                               [present |-> TRUE, list |-> dwi[d]]]
                                      ELSE NoDay] : dwi \in DaysWithIce }

\* no command is running at instant t, and n have run
StartedAt(t, n) ==
    /\ now = t
    /\ pc = "idle"
    /\ cmd = ""
    /\ result = ""
    /\ passes = n
    /\ GCalClient = "nil"
    /\ ga = NoToken
    /\ calendar = {}
    /\ todayKey = 0
    /\ curDay = -1
    /\ evCtx = [Day |-> -1, Product |-> ""]
    /\ prodIdx = 0
    /\ evs = <<>>
    /\ sessionIdsSeen = <<>>
    /\ scanSid = <<>>
    /\ month = 0
    /\ lastCall = NoCall
    /\ txHist = NoHist
    /\ dbHist = NoHist

Started(n) == StartedAt(Min(Instants), n)

\* the first run, with no token file yet
Boot == Started(0) /\ tokenStore = NoStore

Init ==
    /\ Boot
    /\ environ \in Environments
    /\ db \in InitialStores
    /\ tx = db
    /\ dbBefore = db
    /\ conv = NoConv
    /\ trip = NoTrip

\* the variables of the running command other than pc and result
locals == <<cmd, GCalClient, ga, todayKey, curDay, evCtx, prodIdx, evs, sessionIdsSeen,
            scanSid, month>>
\* the database, with its history
store == <<db, tx, dbHist, txHist, dbBefore>>

\* the process exits: its variables are gone
Exit(res) ==
    /\ pc' = "idle"
    /\ result' = res
    /\ cmd' = ""
    /\ GCalClient' = "nil"
    /\ ga' = NoToken
    /\ todayKey' = 0
    /\ curDay' = -1
    /\ evCtx' = [Day |-> -1, Product |-> ""]
    /\ prodIdx' = 0
    /\ evs' = <<>>
    /\ sessionIdsSeen' = <<>>
    /\ scanSid' = <<>>
    /\ month' = 0

\* db.Update returns nil: the transaction commits
Commit(newTx, newHist) ==
    /\ db' = newTx
    /\ dbBefore' = newTx
    /\ tx' = newTx
    /\ dbHist' = newHist
    /\ txHist' = newHist
    /\ Exit("ok")

\* db.Update returns an error or panics: the transaction rolls back
Rollback(res) ==
    /\ db' = db
    /\ dbBefore' = db
    /\ tx' = db
    /\ dbHist' = dbHist
    /\ txHist' = dbHist
    /\ Exit(res)

(***************************************************************************)
(* main: setupGcalSync and the dispatch on the command                     *)
(***************************************************************************)
\* setupGcalSync: the authenticator behind GCalClient.  When NewAuthenticator fails
\* the client is built all the same, around a nil *GAuthenticator ("nilauth").
setupGcalSync(env, file) ==
    IF env.client = "auth" THEN NewAuthenticator(env.tokenFile, file) ELSE NoToken

\* time passes between two runs
Tick ==
    /\ pc = "idle"
    /\ \E t \in InstantsAt(environ.clock) : t > now /\ now' = t
    /\ result' = ""
    /\ lastCall' = NoCall
    /\ UNCHANGED <<conv, trip, environ, passes, tokenStore, calendar, store, pc, locals>>

\* checkForEvents(db, onlyToday) up to the first day of the loop
checkForEvents(command) ==
    /\ pc = "idle"
    /\ passes < MaxPasses
    /\ passes' = passes + 1
    /\ LET day == Seek(db, DayOf(now))
       IN IF day = -1
          THEN Commit(db, dbHist)
          ELSE /\ pc' = "day"
               /\ cmd' = command
               /\ todayKey' = DayOf(now)
               /\ GCalClient' = environ.client
               /\ ga' = setupGcalSync(environ, tokenStore)
               /\ curDay' = day
               /\ evCtx' = [Day |-> day, Product |-> ""]
               /\ result' = ""
               /\ UNCHANGED <<store, prodIdx, evs, sessionIdsSeen, scanSid, month>>
    /\ lastCall' = NoCall
    /\ UNCHANGED <<conv, trip, now, environ, tokenStore, calendar>>

\* checkEventsForDay up to the loop over the products
EnterDay ==
    /\ pc = "day"
    /\ IF ~tx[curDay].products.present
       THEN \* json.Unmarshal of no bytes: "Can't parse products"
            Rollback("error")
       ELSE /\ tx' = [tx EXCEPT ![curDay].hasEvents = TRUE]
            /\ prodIdx' = 1
            /\ sessionIdsSeen' = <<>>
            /\ pc' = "fetch"
            /\ UNCHANGED <<db, dbBefore, dbHist, txHist, result, cmd, GCalClient, ga, todayKey,
                           curDay, evCtx, evs, scanSid, month>>
    /\ lastCall' = NoCall
    /\ UNCHANGED <<conv, trip, now, environ, passes, tokenStore, calendar>>

\* the calls of one updateEvent: the answers the token endpoint and the calendar
\* service may give to the requests it makes
Answers(ev) ==
    { [resp1 |-> r1, upd |-> u, resp2 |-> r2, ins |-> i] :
        r1 \in (IF GCalClient = "auth" /\ ~validToken(ga, now)
                THEN TokenResponses ELSE {NoResponse}),
        u \in (IF GCalClient = "auth"
               THEN UpdateOutcomes(calendar, GCalId(ev.SessionId)) ELSE {"none"}),
        r2 \in {NoResponse},
        i \in (IF GCalClient = "auth" THEN InsertOutcomes ELSE {"none"}) }

\* the record of a call, for the properties
CallRecord(kind, ev, r) ==
    [day |-> curDay, ctxDay |-> evCtx.Day, sid |-> ev.SessionId, kind |-> kind,
     action |-> r.action, client |-> GCalClient, reqs |-> r.sync.reqs,
     syncFailed |-> r.sync.failed,
     StartTime |-> ev.StartTime, EndTime |-> ev.EndTime,
     panic |-> r.sync.panic, err |-> r.err, pass |-> passes,
     keysBefore |-> IF ev.SessionId \in SessionIds
                    THEN DOMAIN tx[curDay].events[ev.SessionId].kv ELSE {},
     keysAfter |-> IF ev.SessionId \in SessionIds
                   THEN DOMAIN r.events[ev.SessionId].kv ELSE {},
     product |-> evCtx.Product, dwi |-> <<>>]

\* the effects every updateEvent call has, whoever makes it
Called(kind, ev, r) ==
    /\ lastCall' = CallRecord(kind, ev, r)
    /\ calendar' = r.sync.calendar
    /\ tokenStore' = r.sync.store

\* the record of a getEventsInfo call, for the properties
Fetched(res) ==
    [NoCall EXCEPT !.kind = "fetch", !.day = curDay, !.ctxDay = evCtx.Day,
                   !.product = tx[curDay].products.list[prodIdx],
                   !.err = IF res.err THEN "Can't retrieve event info" ELSE "",
                   !.pass = passes]

\* a faulty variant: a failed getEventsInfo is taken for an empty list and the
\* loop goes on to the next product
FetchEvents_IgnoreError ==
    /\ pc = "fetch"
    /\ prodIdx <= Len(tx[curDay].products.list)
    /\ \E res \in FetchOutcomesAt(environ.site) :
        /\ lastCall' = Fetched(res)
        /\ evCtx' = [evCtx EXCEPT !.Product = tx[curDay].products.list[prodIdx]]
        /\ evs' = res.evs
        /\ prodIdx' = IF res.evs = <<>> THEN prodIdx + 1 ELSE prodIdx
        /\ pc' = IF res.evs = <<>> THEN "fetch" ELSE "update"
        /\ UNCHANGED <<store, result, cmd, GCalClient, ga, todayKey, curDay,
                       sessionIdsSeen, scanSid, month>>
    /\ UNCHANGED <<conv, trip, now, environ, passes, tokenStore, calendar>>

\* checkEventsForDay: getEventsInfo for the next product
FetchEvents ==
    /\ pc = "fetch"
    /\ prodIdx <= Len(tx[curDay].products.list)
    /\ \E res \in FetchOutcomesAt(environ.site) :
        /\ lastCall' = Fetched(res)
        /\ IF res.err
           THEN \* "Can't retrieve event info"
                Rollback("error")
           ELSE /\ evCtx' = [evCtx EXCEPT !.Product = tx[curDay].products.list[prodIdx]]
                /\ evs' = res.evs
                /\ prodIdx' = IF res.evs = <<>> THEN prodIdx + 1 ELSE prodIdx
                /\ pc' = IF res.evs = <<>> THEN "fetch" ELSE "update"
                /\ UNCHANGED <<store, result, cmd, GCalClient, ga, todayKey, curDay,
                               sessionIdsSeen, scanSid, month>>
    /\ UNCHANGED <<conv, trip, now, environ, passes, tokenStore, calendar>>

\* checkEventsForDay: updateEvent for the next fetched record
UpdateFetched ==
    /\ pc = "update"
    /\ LET ev == timestampedEventInfo(Head(evs), now, FALSE)
       IN \E a \in Answers(ev) :
           \E r \in {updateEvent(tx[curDay].events, evCtx, ev, GCalClient, ga, tokenStore,
                                 calendar, now, pc, a.resp1, a.upd, a.resp2, a.ins)} :
              /\ Called("poll", ev, r)
              /\ IF r.sync.panic THEN Rollback("panic")
                 ELSE IF r.err # ""
                 THEN \* "Can't write event"
                      Rollback("error")
                 ELSE /\ tx' = [tx EXCEPT ![curDay].events = r.events]
                      /\ txHist' = [txHist EXCEPT ![curDay][ev.SessionId] =
                                       HistAfter(@, tx[curDay].events[ev.SessionId], ev, r)]
                      /\ ga' = r.sync.ga
                      /\ sessionIdsSeen' = Append(sessionIdsSeen, ev.SessionId)
                      /\ evs' = Tail(evs)
                      /\ prodIdx' = IF Tail(evs) = <<>> THEN prodIdx + 1 ELSE prodIdx
                      /\ pc' = IF Tail(evs) = <<>> THEN "fetch" ELSE "update"
                      /\ UNCHANGED <<db, dbBefore, dbHist, result, cmd, GCalClient, todayKey, curDay,
                                     evCtx, scanSid, month>>
    /\ UNCHANGED <<conv, trip, now, environ, passes>>

\* checkEventsForDay: the products are done, the scan for cancelled events begins
BeginScan ==
    /\ pc = "fetch"
    /\ prodIdx > Len(tx[curDay].products.list)
    /\ pc' = "scan"
    /\ scanSid' = SessionCursorNext(tx[curDay].events, <<>>)
    /\ lastCall' = NoCall
    /\ UNCHANGED <<conv, trip, now, environ, passes, tokenStore, calendar, store, result, cmd,
                   GCalClient, ga, todayKey, curDay, evCtx, prodIdx, evs, sessionIdsSeen,
                   month>>

\* a faulty variant: only the session seen last is looked at, as if the list
\* were begun anew for every product
isSessionInList_LastOnly(seen, sessId) == seen # <<>> /\ seen[Len(seen)] = sessId

\* isSessionInList(seen, sessId)
isSessionInList(seen, sessId) == \E i \in 1..Len(seen) : seen[i] = sessId

\* checkEventsForDay: one turn of the loop over the stored sessions
ScanSession ==
    /\ pc = "scan"
    /\ scanSid # <<>>
    /\ LET evb == tx[curDay].events[scanSid]
           lastEv == getMostRecentDetails(evb)
           t == parseTimeLocally(evCtx.Day, lastEv.val.StartTime)
           next == SessionCursorNext(tx[curDay].events, scanSid)
           ev == timestampedEventInfo(EmbeddedEventInfo(lastEv.val), now, TRUE)
           skip == /\ scanSid' = next
                   /\ lastCall' = NoCall
                   /\ UNCHANGED <<store, result, pc, cmd, GCalClient, ga, todayKey, curDay,
                                  evCtx, prodIdx, evs, sessionIdsSeen, month, calendar,
                                  tokenStore>>
           break == /\ pc' = "dayend"
                    /\ lastCall' = NoCall
                    /\ UNCHANGED <<store, result, cmd, GCalClient, ga, todayKey, curDay,
                                   evCtx, prodIdx, evs, sessionIdsSeen, scanSid, month,
                                   calendar, tokenStore>>
       IN IF lastEv.err # "" THEN break
          ELSE IF t.err THEN skip
          ELSE IF t.t < now THEN break
          ELSE IF isSessionInList(sessionIdsSeen, scanSid) THEN skip
          ELSE \E a \in Answers(ev) :
                \E r \in {updateEvent(tx[curDay].events, evCtx, ev, GCalClient, ga,
                                      tokenStore, calendar, now, pc,
                                      a.resp1, a.upd, a.resp2, a.ins)} :
                   /\ Called("cancel", ev, r)
                   /\ IF r.sync.panic THEN Rollback("panic")
                      ELSE IF r.err # ""
                      THEN \* "can't write event"
                           Rollback("error")
                      ELSE /\ tx' = [tx EXCEPT ![curDay].events = r.events]
                           /\ txHist' = [txHist EXCEPT ![curDay][scanSid] =
                                            HistAfter(@, evb, ev, r)]
                           /\ ga' = r.sync.ga
                           /\ scanSid' = next
                           /\ UNCHANGED <<db, dbBefore, dbHist, result, pc, cmd, GCalClient, todayKey,
                                          curDay, evCtx, prodIdx, evs, sessionIdsSeen,
                                          month>>
    /\ UNCHANGED <<conv, trip, now, environ, passes>>

\* checkEventsForDay: the cursor over the sessions is exhausted
EndScan ==
    /\ pc = "scan"
    /\ scanSid = <<>>
    /\ pc' = "dayend"
    /\ lastCall' = NoCall
    /\ UNCHANGED <<conv, trip, now, environ, passes, tokenStore, calendar, store, result, locals>>

\* checkForEvents: checkEventsForDay returned nil; break, or the cursor's next day
NextDay ==
    /\ pc = "dayend"
    /\ cmd \in {"check-events", "check-todays-events", "check-if-events-starting-soon"}
    /\ LET day == CursorNext(tx, curDay)
       IN IF cmd # "check-events" \/ day = -1
          THEN Commit(tx, txHist)
          ELSE /\ pc' = "day"
               /\ curDay' = day
               /\ evCtx' = [Day |-> day, Product |-> ""]
               /\ UNCHANGED <<store, result, cmd, GCalClient, ga, todayKey, prodIdx, evs,
                              sessionIdsSeen, scanSid, month>>
    /\ lastCall' = NoCall
    /\ UNCHANGED <<conv, trip, now, environ, passes, tokenStore, calendar>>

(***************************************************************************)
(* checkIfEventsStartingSoon                                               *)
(***************************************************************************)
\* evs.ForEach(...): whether eventStartingSoon is set, from session sid on.  The
\* callback returns the error of parseTimeLocally, which ends the iteration;
\* ForEach's own result is dropped.
RECURSIVE eventStartingSoon(_, _, _, _)
eventStartingSoon(events, sid, today, t) ==
    LET rest(next) == eventStartingSoon(events, next, today, t)
        looked(lastEv, st) ==
            IF lastEv.err # "" THEN rest(SessionCursorNext(events, sid))
            ELSE IF st.err THEN FALSE
            ELSE IF st.t < t THEN rest(SessionCursorNext(events, sid))
            ELSE (st.t - t < soonThreshold) \/ rest(SessionCursorNext(events, sid))
        found(lastEv) == looked(lastEv, parseTimeLocally(today, lastEv.val.StartTime))
    IN IF sid = <<>> THEN FALSE
       ELSE found(getMostRecentDetails(events[sid]))

\* checkIfEventsStartingSoon(db) up to the call of checkEventsForDay
checkIfEventsStartingSoon ==
    /\ pc = "idle"
    /\ passes < MaxPasses
    /\ passes' = passes + 1
    /\ LET b == Seek(db, DayOf(now))
       IN IF \/ b = -1
             \/ ~db[b].hasEvents
             \/ ~eventStartingSoon(db[b].events, SessionCursorNext(db[b].events, <<>>),
                                   DayOf(now), now)
          THEN Commit(db, dbHist)
          ELSE /\ pc' = "day"
               /\ cmd' = "check-if-events-starting-soon"
               /\ todayKey' = DayOf(now)
               /\ GCalClient' = environ.client
               /\ ga' = setupGcalSync(environ, tokenStore)
               /\ curDay' = b
               /\ evCtx' = [Day |-> DayOf(now), Product |-> ""]
               /\ result' = ""
               /\ UNCHANGED <<store, prodIdx, evs, sessionIdsSeen, scanSid, month>>
    /\ lastCall' = NoCall
    /\ UNCHANGED <<conv, trip, now, environ, tokenStore, calendar>>

(***************************************************************************)
(* checkForNewDays and addDays                                             *)
(***************************************************************************)
\* len(b.Get([]byte("products")))
StoredLen(products) == IF products.present THEN JsonLen(products.list) ELSE 0

\* a faulty variant: the stored list is compared with the new one by content
addDays_CompareContents(root, dwi) ==
    [d \in DayKeys |->
        IF d \notin DOMAIN dwi THEN root[d]
        ELSE LET b == IF root[d].exists THEN root[d] ELSE NewDay
             IN IF b.products # [present |-> TRUE, list |-> dwi[d]]
                THEN [b EXCEPT !.products = [present |-> TRUE, list |-> dwi[d]]]
                ELSE b]

\* the transaction of addDays
addDays(root, dwi) ==
    [d \in DayKeys |->
        IF d \notin DOMAIN dwi THEN root[d]
        ELSE LET b == IF root[d].exists THEN root[d] ELSE NewDay
             IN IF StoredLen(b.products) # JsonLen(dwi[d])
                THEN [b EXCEPT !.products = [present |-> TRUE, list |-> dwi[d]]]
                ELSE b]

\* checkForNewDays up to the loop over the two months
checkForNewDays ==
    /\ pc = "idle"
    /\ passes < MaxPasses
    /\ passes' = passes + 1
    /\ cmd' = "check-calendar"
    /\ todayKey' = DayOf(now)
    /\ pc' = "month"
    /\ month' = 1
    /\ GCalClient' = environ.client
    /\ ga' = setupGcalSync(environ, tokenStore)
    /\ result' = ""
    /\ lastCall' = NoCall
    /\ UNCHANGED <<conv, trip, now, environ, tokenStore, calendar, store, curDay, evCtx,
                   prodIdx, evs, sessionIdsSeen, scanSid>>

\* checkForNewDays: checkIceCalendar and addDays for one month
CheckMonth ==
    /\ pc = "month"
    /\ \/ \* "Can't check calendar"
          /\ UNCHANGED <<db, tx>>
          /\ dbBefore' = db
          /\ Exit("error")
          /\ lastCall' = NoCall
       \/ \E dwi \in DaysWithIceAt(environ.site) :
            /\ lastCall' = [NoCall EXCEPT !.kind = "addDays", !.dwi = dwi, !.pass = passes]
            /\ db' = addDays(db, dwi)
            /\ tx' = addDays(db, dwi)
            /\ dbBefore' = IF month = 2 THEN addDays(db, dwi) ELSE dbBefore
            /\ IF month = 2 THEN Exit("ok")
               ELSE /\ month' = 2
                    /\ UNCHANGED <<pc, result, cmd, GCalClient, ga, todayKey, curDay,
                                   evCtx, prodIdx, evs, sessionIdsSeen, scanSid>>
    /\ UNCHANGED <<conv, trip, now, environ, passes, tokenStore, calendar, txHist, dbHist>>

Next ==
    \/ Tick
    \/ checkForNewDays
    \/ CheckMonth
    \/ checkForEvents("check-events")
    \/ checkForEvents("check-todays-events")
    \/ checkIfEventsStartingSoon
    \/ EnterDay
    \/ FetchEvents
    \/ UpdateFetched
    \/ BeginScan
    \/ ScanSession
    \/ EndScan
    \/ NextDay

Spec == Init /\ [][Next]_vars

(***************************************************************************)
(* The same program beside a calendar it may write to, over a day on which *)
(* an earlier check-calendar found two products                            *)
(***************************************************************************)
TwoProductStore ==
    [d \in DayKeys |-> [NewDay EXCEPT !.products =
                            [present |-> TRUE, list |-> <<"p1", "p2">>]]]

\* the runs that are looked at: the last RunsLeft of them
RunsLeft == 1

InitTwoProducts ==
    /\ Started(MaxPasses - RunsLeft)
    /\ tokenStore = NoStore
    /\ environ = [client |-> "auth", tokenFile |-> "token.json", site |-> "practice",
                  clock |-> "coarse"]
    /\ db = TwoProductStore
    /\ tx = db
    /\ dbBefore = db
    /\ conv = NoConv
    /\ trip = NoTrip

SpecTwoProducts == InitTwoProducts /\ [][Next]_vars

\* the same day with no calendar sync configured, over the last QuietRuns runs
QuietRuns == 2

InitTwoProductsQuiet ==
    /\ Started(MaxPasses - QuietRuns)
    /\ tokenStore = NoStore
    /\ environ = [client |-> "nil", tokenFile |-> "", site |-> "practice",
                  clock |-> "coarse"]
    /\ db = TwoProductStore
    /\ tx = db
    /\ dbBefore = db
    /\ conv = NoConv
    /\ trip = NoTrip

SpecTwoProductsQuiet == InitTwoProductsQuiet /\ [][Next]_vars

(***************************************************************************)
(* The same program over a store that was damaged from outside: the latest *)
(* snapshot of session "A" was cut short and no longer decodes             *)
(***************************************************************************)
\* the bytes of a snapshot, cut short
Truncated(ev) == [wellFormed |-> FALSE, members |-> ev]

DamagedStore ==
    [d \in DayKeys |->
        [NewDay EXCEPT
            !.products = [present |-> TRUE, list |-> <<"p1">>],
            !.hasEvents = TRUE,
            !.events = [NoEvents EXCEPT ![<<65>>] =
                Put([NewBucket EXCEPT !.sequence = 1], 1,
                    Truncated(timestampedEventInfo(EventInfo(<<65>>, "09:00:00", 5),
                                                   Min(Instants), FALSE)))]]]

InitDamaged ==
    /\ Boot
    /\ environ = [client |-> "nil", tokenFile |-> "", site |-> "practice",
                  clock |-> "coarse"]
    /\ db = DamagedStore
    /\ tx = db
    /\ dbBefore = db
    /\ conv = NoConv
    /\ trip = NoTrip

SpecDamaged == InitDamaged /\ [][Next]_vars

(***************************************************************************)
(* The same program before a booking site whose sessions start at 09:00:00 *)
(* and 10:00:00, run also at 09:00 sharp; no calendar sync is configured   *)
(***************************************************************************)
InitScan ==
    /\ Boot
    /\ environ = [client |-> "nil", tokenFile |-> "", site |-> "staggered",
                  clock |-> "boundary"]
    /\ db \in InitialStores
    /\ tx = db
    /\ dbBefore = db
    /\ conv = NoConv
    /\ trip = NoTrip

SpecScan == InitScan /\ [][Next]_vars

(***************************************************************************)
(* The authenticator on its own: a process builds it with NewAuthenticator *)
(* and sends one request through RoundTrip; a second process follows, at   *)
(* the same minute or the next, and finds the token file the first left    *)
(***************************************************************************)
MaxProcesses == 2

\* what the token endpoint may answer to one exchange: no answer at all, a body
\* that is not JSON, or a JSON body, each under an HTTP status
Lifetimes == {-1, 0, 60}
TokenResponseInputs ==
    {[NoAnswer EXCEPT !.kind = "transport"]} \cup
    { [NoAnswer EXCEPT !.kind = "garbage", !.status = st] : st \in {200, 500} } \cup
    { [kind |-> "json", status |-> st, Error |-> e, TokenType |-> ty,
       AccessToken |-> tok, ExpiresIn |-> life] :
        st \in {200, 400}, e \in {"", "invalid_grant"}, ty \in {"Bearer", "MAC"},
        tok \in {"", "ya29"}, life \in Lifetimes }

\* the token file a process may find: none, one that does not parse, one an
\* earlier process wrote, or one that os.Create cannot open for writing
TokenFiles ==
    {NoStore, [NoStore EXCEPT !.exists = TRUE], [NoStore EXCEPT !.writable = FALSE],
     [storeToken("old", Min(Instants) - 1) EXCEPT !.writable = FALSE]} \cup
    { storeToken(tok, v) : tok \in {"", "old"},
                           v \in {Min(Instants) - 1, Min(Instants), Min(Instants) + 1} }

InitToken ==
    /\ Started(0)
    /\ tokenStore \in TokenFiles
    /\ environ \in { [client |-> "auth", tokenFile |-> f, site |-> "practice",
                       clock |-> "coarse"] : f \in {"", "token.json"} }
    /\ db = [d \in DayKeys |-> NoDay]
    /\ tx = db
    /\ dbBefore = db
    /\ conv = NoConv
    /\ trip = NoTrip

\* main, setupGcalSync: a process starts and builds its authenticator
StartProcess ==
    /\ trip.phase \in {"none", "sent"}
    /\ trip.process < MaxProcesses
    /\ \E t \in {now, now + 1} :
          /\ trip.process = 0 => t = now
          /\ now' = t
    /\ ga' = setupGcalSync(environ, tokenStore)
    /\ trip' = [NoTrip EXCEPT !.process = trip.process + 1, !.phase = "built",
                              !.left = ga, !.leftRenewed = trip.renewed]
    /\ UNCHANGED <<conv, environ, passes, tokenStore, calendar, store, pc, result, cmd,
                   GCalClient, todayKey, curDay, evCtx, prodIdx, evs, sessionIdsSeen,
                   scanSid, month, lastCall>>

\* ga.RoundTrip(req) for the one request of the process
SendRequest ==
    /\ trip.phase = "built"
    /\ \E resp \in (IF validToken(ga, now) THEN {NoAnswer} ELSE TokenResponseInputs) :
        \E rt \in {RoundTrip(ga, tokenStore, now, resp)} :
          /\ ga' = rt.ga
          /\ tokenStore' = rt.store
          /\ trip' = [trip EXCEPT !.phase = "sent",
                                  !.valid = validToken(ga, now),
                                  !.resp = resp,
                                  !.err = rt.err,
                                  !.forwarded = (rt.err = ""),
                                  !.bearer = rt.bearer,
                                  !.renewed = (~validToken(ga, now) /\ rt.err = ""),
                                  !.before = ga]
    /\ UNCHANGED <<conv, now, environ, passes, calendar, store, pc, result, cmd,
                   GCalClient, todayKey, curDay, evCtx, prodIdx, evs, sessionIdsSeen,
                   scanSid, month, lastCall>>

NextToken ==
    \/ StartProcess
    \/ SendRequest

SpecToken == InitToken /\ [][NextToken]_vars

(***************************************************************************)
(* check-calendar on its own, before a calendar page whose product lists   *)
(* change between one look and the next                                    *)
(***************************************************************************)
InitCalendar ==
    /\ Boot
    /\ environ = [client |-> "nil", tokenFile |-> "", site |-> "reshuffled",
                  clock |-> "coarse"]
    /\ db \in InitialStores
    /\ tx = db
    /\ dbBefore = db
    /\ conv = NoConv
    /\ trip = NoTrip

NextCalendar ==
    \/ Tick
    \/ checkForNewDays
    \/ CheckMonth

SpecCalendar == InitCalendar /\ [][NextCalendar]_vars

(***************************************************************************)
(* The same program run two days before the first day with ice: the store  *)
(* holds no bucket for today's date, only one for a later day              *)
(***************************************************************************)
InitEarly ==
    /\ StartedAt(Min(EarlyInstants), 0)
    /\ tokenStore = NoStore
    /\ environ = [client |-> "nil", tokenFile |-> "", site |-> "practice",
                  clock |-> "early"]
    /\ db \in InitialStores
    /\ tx = db
    /\ dbBefore = db
    /\ conv = NoConv
    /\ trip = NoTrip

SpecEarly == InitEarly /\ [][Next]_vars

(***************************************************************************)
(* makeGCalEvent on its own: two records are converted side by side        *)
(***************************************************************************)
InitId ==
    /\ Boot
    /\ environ = [client |-> "nil", tokenFile |-> "", site |-> "practice",
                  clock |-> "coarse"]
    /\ db = [d \in DayKeys |-> NoDay]
    /\ tx = db
    /\ dbBefore = db
    /\ conv \in ConvStarts
    /\ trip = NoTrip

\* makeGCalEvent(ev, evCtx, ts) for the two inputs
Convert ==
    /\ ~conv.done
    /\ conv' = [conv EXCEPT
                  !.done = TRUE,
                  !.idA = makeGCalEvent(EventInfo(conv.a.sid, "09:00:00", conv.a.avail),
                                        [Day |-> conv.a.day, Product |-> conv.a.product],
                                        conv.a.ts).ev.Id,
                  !.idB = makeGCalEvent(EventInfo(conv.b.sid, "09:00:00", conv.b.avail),
                                        [Day |-> conv.b.day, Product |-> conv.b.product],
                                        conv.b.ts).ev.Id]
    /\ UNCHANGED <<trip, now, environ, passes, tokenStore, calendar, store, pc, result,
                   locals, lastCall>>

NextId == Convert

SpecId == InitId /\ [][NextId]_vars

(***************************************************************************)
(* Properties                                                              *)
(***************************************************************************)

\* C1: in the committed store and in the open transaction, no session holds two
\* consecutive snapshots that agree on all nine comparable fields.
C1_NoConsecutiveDuplicates ==
    \A root \in {db, tx} : \A d \in DayKeys : \A sid \in SessionIds :
        LET kv == root[d].events[sid].kv
        IN \A k \in DOMAIN kv : \A k2 \in DOMAIN kv :
              (k < k2 /\ ~\E j \in DOMAIN kv : k < j /\ j < k2)
              => Comparable(UnmarshalEvent(kv[k]).val)
                    # Comparable(UnmarshalEvent(kv[k2]).val)

\* a committed session with a cancellation appended after an earlier snapshot
C1_CancelledAfterSnapshot ==
    \E d \in DayKeys : \E sid \in SessionIds :
        LET b == db[d].events[sid]
        IN /\ Cardinality(DOMAIN b.kv) >= 2
           /\ getMostRecentDetails(b).val.Cancelled

\* C2: after any number of updateEvent calls for a session, the comparable fields
\* of its latest snapshot are those of the last incoming record, and it holds as
\* many snapshots as one (the first call) plus the calls whose record differed
\* from the latest snapshot at the time of the call; an Unchanged call appends
\* nothing.
C2_LatestIsLastIncoming ==
    /\ \A d \in DayKeys : \A sid \in SessionIds :
          /\ Cardinality(DOMAIN tx[d].events[sid].kv) = txHist[d][sid].n
          /\ Cardinality(DOMAIN db[d].events[sid].kv) = dbHist[d][sid].n
          /\ txHist[d][sid].n > 0 =>
                Comparable(getMostRecentDetails(tx[d].events[sid]).val)
                    = txHist[d][sid].last
          /\ dbHist[d][sid].n > 0 =>
                Comparable(getMostRecentDetails(db[d].events[sid]).val)
                    = dbHist[d][sid].last
    /\ lastCall.action = "Unchanged" => lastCall.keysAfter = lastCall.keysBefore

\* an Unchanged poll of a session that holds two snapshots or more
C2_UnchangedAfterUpdates ==
    /\ lastCall.kind = "poll"
    /\ lastCall.action = "Unchanged"
    /\ Cardinality(lastCall.keysAfter) >= 2

\* C3: a step never changes or removes a committed snapshot, gives every snapshot
\* it adds to a session a key greater than all the session's committed keys, and
\* never removes a day bucket or a session bucket.
C3_AppendOnly ==
    [][\A d \in DayKeys :
          /\ db[d].exists => db'[d].exists
          /\ \A sid \in SessionIds :
                LET old == db[d].events[sid]
                    new == db'[d].events[sid]
                IN /\ old.exists => new.exists
                   /\ \A k \in DOMAIN old.kv : k \in DOMAIN new.kv /\ new.kv[k] = old.kv[k]
                   /\ \A k \in DOMAIN new.kv \ DOMAIN old.kv :
                         \A j \in DOMAIN old.kv : k > j]_vars

\* a committed day on which every session has a bucket and one has two snapshots
C3_TwoSessionsCommitted ==
    \E d \in DayKeys :
        /\ \A sid \in SessionIds : db[d].events[sid].kv # <<>>
        /\ \E sid \in SessionIds : DOMAIN db[d].events[sid].kv = {1, 2}

\* C4 as stated: with an authenticator, an updateEvent call makes calendar
\* requests if and only if it appends a snapshot, and then one update followed by
\* at most one insert.
C4_RequestsIffAppended ==
    (lastCall.kind # "none" /\ lastCall.client = "auth") =>
        /\ lastCall.reqs # <<>> <=> lastCall.keysAfter # lastCall.keysBefore
        /\ lastCall.reqs # <<>> =>
              /\ lastCall.reqs[1].method = "PUT"
              /\ Len(lastCall.reqs) <= 2
              /\ Len(lastCall.reqs) = 2 => lastCall.reqs[2].method = "POST"

\* C4, amended: with an authenticator, an updateEvent call makes calendar requests
\* if and only if it appends a snapshot whose start and end times parse; an
\* Unchanged call makes none, an appended snapshot whose times do not parse makes
\* none, and the requests are one update followed by at most one insert.
C4_RequestsIffAppendedConvertible ==
    (lastCall.kind # "none" /\ lastCall.client = "auth") =>
        /\ lastCall.reqs # <<>> <=>
              /\ lastCall.keysAfter # lastCall.keysBefore
              /\ ~parseTimeLocally(lastCall.ctxDay, lastCall.StartTime).err
              /\ ~parseTimeLocally(lastCall.ctxDay, lastCall.EndTime).err
        /\ lastCall.action = "Unchanged" => lastCall.reqs = <<>>
        /\ lastCall.reqs # <<>> =>
              /\ lastCall.reqs[1].method = "PUT"
              /\ Len(lastCall.reqs) <= 2
              /\ Len(lastCall.reqs) = 2 => lastCall.reqs[2].method = "POST"

\* a snapshot appended with an authenticator and no request, its start time
\* being unparseable
C4_AppendedUnconvertible ==
    /\ lastCall.client = "auth"
    /\ lastCall.action \in {"Created", "Updated"}
    /\ lastCall.keysAfter # lastCall.keysBefore
    /\ parseTimeLocally(lastCall.ctxDay, lastCall.StartTime).err
    /\ lastCall.reqs = <<>>

\* C5: in every sync the first request is the update of the identifier derived
\* from the session; an insert follows if and only if that update reported
\* not-found, and it carries the same event as the update.
C5_UpdateThenInsertOnNotFound ==
    lastCall.reqs # <<>> =>
        /\ lastCall.reqs[1].method = "PUT"
        /\ lastCall.reqs[1].id = GCalId(lastCall.sid)
        /\ Len(lastCall.reqs) <= 2
        /\ Len(lastCall.reqs) = 2 <=>
              (lastCall.reqs[1].forwarded /\ lastCall.reqs[1].outcome = "notfound")
        /\ Len(lastCall.reqs) = 2 =>
              /\ lastCall.reqs[2].method = "POST"
              /\ lastCall.reqs[2].ev = lastCall.reqs[1].ev

\* an update answered not-found, followed by an insert that succeeded
C5_InsertedAfterNotFound ==
    /\ Len(lastCall.reqs) = 2
    /\ lastCall.reqs[1].outcome = "notfound"
    /\ lastCall.reqs[2].outcome = "ok"
    /\ lastCall.reqs[2].id \in calendar

\* C6: the calendar identifier depends on the session identifier alone (equal
\* session identifiers give equal identifiers whatever the record, day, product
\* and timestamp), different session identifiers give different identifiers, also
\* after lower-casing, and no identifier holds an upper-case character.
C6_IdentifierOfSessionAlone ==
    conv.done =>
        /\ conv.a.sid = conv.b.sid => conv.idA = conv.idB
        /\ conv.a.sid # conv.b.sid =>
              /\ conv.idA # conv.idB
              /\ ToLower(conv.idA) # ToLower(conv.idB)
        /\ conv.idA = GCalId(conv.a.sid)
        /\ \A id \in {conv.idA, conv.idB} : \A k \in 1..Len(id) :
              \A u \in 1..Len(UpperChars) : id[k] # UpperChars[u]

\* "A" and "a" converted on different days, for different products
C6_CaseDiffers ==
    /\ conv.done
    /\ conv.a.sid = <<65>>
    /\ conv.b.sid = <<97>>
    /\ conv.b.day # conv.a.day
    /\ conv.b.product # conv.a.product
    /\ conv.idA = <<"8", "4">>

\* C7 as stated: a session whose latest committed snapshot failed to reach the
\* calendar is synchronised again by the next pass, also when the booking site
\* reports the record unchanged (its times being parseable, so that a request
\* can be made).
C7_FailedSyncRetried ==
    (/\ lastCall.kind = "poll"
     /\ lastCall.client = "auth"
     /\ lastCall.action = "Unchanged"
     /\ ~parseTimeLocally(lastCall.ctxDay, lastCall.StartTime).err
     /\ ~parseTimeLocally(lastCall.ctxDay, lastCall.EndTime).err
     /\ dbHist[lastCall.day][lastCall.sid].pending)
    => lastCall.reqs # <<>>

\* C8 as stated: a calendar sync that fails never makes updateEvent return an
\* error and never keeps the snapshot from being appended.
C8_FailedSyncStillAppends ==
    (/\ lastCall.action \in {"Created", "Updated"}
     /\ lastCall.syncFailed \/ lastCall.panic)
    => /\ lastCall.err = ""
       /\ ~lastCall.panic
       /\ lastCall.keysAfter # lastCall.keysBefore

\* C9 as stated: without a usable authenticator (none configured, or its
\* construction failed) no calendar request is attempted and nothing fails at
\* request time.
C9_NoAuthenticatorNoRequest ==
    /\ lastCall.client \in {"nil", "nilauth"} => lastCall.reqs = <<>> /\ ~lastCall.panic
    /\ environ.client \in {"nil", "nilauth"} => result # "panic"

\* C10 as stated: the first calendar request for a day is sent only when the
\* day's change detection and its cancellation scan are complete.
C10_SyncAfterDayIsDone ==
    lastCall.reqs # <<>> => pc \notin {"fetch", "update", "scan"}


\* C11: local persistence precedes sync: after a pass that aborted, whose store
\* writes were rolled back, every event the calendar has accepted belongs to a
\* session that has a snapshot in the committed store.
C11_SyncedSnapshotsCommitted ==
    (pc = "idle" /\ result = "error") =>
        \A sid \in SessionIds :
            GCalId(sid) \in calendar =>
                \E d \in DayKeys : db[d].exists /\ DOMAIN db[d].events[sid].kv # {}


\* C12: each top-level check operation is atomic on the store: when a command
\* ends with an error, the committed store is the one it found when it began.
C12_ErrorLeavesNoWrites ==
    [][(pc # "idle" /\ pc' = "idle" /\ result' # "ok") => db' = dbBefore]_vars

\* C13: fail-fast on corruption: a session whose latest committed snapshot does
\* not decode is never overlaid: no command commits a change to its bucket.
C13_UndecodableNeverOverlaid ==
    [][\A d \in DayKeys, sid \in SessionIds :
          (/\ CursorLast(db[d].events[sid]) # 0
           /\ ~db[d].events[sid].kv[CursorLast(db[d].events[sid])].wellFormed)
          => db'[d].events[sid] = db[d].events[sid]]_vars

\* C14: the cancellation scan never appends a cancelled snapshot to a session
\* whose latest start time is at or before the present instant: a cancel call
\* that appended was made for a session that starts strictly later.
C14_NoCancelAtOrAfterStart ==
    (lastCall.kind = "cancel" /\ lastCall.action \in {"Created", "Updated"}) =>
        /\ ~parseTimeLocally(lastCall.ctxDay, lastCall.StartTime).err
        /\ parseTimeLocally(lastCall.ctxDay, lastCall.StartTime).t > now

\* C15: when the scan of a day is over, every stored session that the pass did
\* not observe and whose latest snapshot has a parseable start time after the
\* present instant has cancelled = true in its latest snapshot, wherever it
\* lies in key order.
C15_UnobservedFutureCancelled ==
    pc = "dayend" =>
        \A sid \in SessionIds :
            (/\ CursorLast(tx[curDay].events[sid]) # 0
             /\ getMostRecentDetails(tx[curDay].events[sid]).err = ""
             /\ ~isSessionInList(sessionIdsSeen, sid)
             /\ ~parseTimeLocally(curDay,
                    getMostRecentDetails(tx[curDay].events[sid]).val.StartTime).err
             /\ parseTimeLocally(curDay,
                    getMostRecentDetails(tx[curDay].events[sid]).val.StartTime).t > now)
            => getMostRecentDetails(tx[curDay].events[sid]).val.Cancelled

\* C16: cancellation inference is idempotent: when the scan of a day is over,
\* every stored session that the pass did not observe and that has not started
\* ends in exactly one cancelled snapshot: its latest snapshot is cancelled and
\* the one before it, if there is one, is not.
C16_ExactlyOneCancelled ==
    pc = "dayend" =>
        \A sid \in SessionIds :
            (/\ CursorLast(tx[curDay].events[sid]) # 0
             /\ getMostRecentDetails(tx[curDay].events[sid]).err = ""
             /\ ~isSessionInList(sessionIdsSeen, sid)
             /\ ~parseTimeLocally(curDay,
                    getMostRecentDetails(tx[curDay].events[sid]).val.StartTime).err
             /\ now < parseTimeLocally(curDay,
                    getMostRecentDetails(tx[curDay].events[sid]).val.StartTime).t)
            => LET b == tx[curDay].events[sid]
                   earlier == DOMAIN b.kv \ {CursorLast(b)}
               IN /\ UnmarshalEvent(b.kv[CursorLast(b)]).val.Cancelled
                  /\ earlier # {} => ~UnmarshalEvent(b.kv[Max(earlier)]).val.Cancelled

\* C16, for the sessions the scan reaches: its call for a session whose latest
\* snapshot is not cancelled appends exactly one snapshot, a cancelled one; its
\* call for a session whose latest snapshot is already cancelled appends
\* nothing and makes no calendar request.
C16_CancelOnceThenUnchanged ==
    (lastCall.kind = "cancel" /\ ~lastCall.panic /\ lastCall.err = "") =>
        LET b == tx[lastCall.day].events[lastCall.sid]
            prev == UnmarshalEvent(b.kv[Max(lastCall.keysBefore)]).val
        IN IF prev.Cancelled
           THEN /\ lastCall.action = "Unchanged"
                /\ lastCall.keysAfter = lastCall.keysBefore
                /\ DOMAIN b.kv = lastCall.keysBefore
                /\ lastCall.reqs = <<>>
           ELSE /\ Cardinality(lastCall.keysAfter \ lastCall.keysBefore) = 1
                /\ DOMAIN b.kv = lastCall.keysAfter
                /\ CursorLast(b) \notin lastCall.keysBefore
                /\ getMostRecentDetails(b).val.Cancelled

\* C17: the token validity check treats a token as invalid when it is empty, when
\* its expiry is before now and when its expiry equals now: in each of these
\* cases RoundTrip has asked the token endpoint before it forwards.
C17_InvalidAtOrBeforeNow ==
    (/\ trip.phase = "sent"
     /\ (trip.before.currentToken = "" \/ trip.before.tokenValidity <= now))
    => (~trip.valid /\ trip.resp # NoAnswer)

\* C18: every request that RoundTrip forwards after a renewal carries a non-empty
\* bearer token whose expiry is later than the time of the validity check,
\* whatever token was preloaded and whatever lifetime and access token the
\* token endpoint returned.
C18_ForwardedWithLiveToken ==
    (trip.phase = "sent" /\ trip.forwarded /\ ~trip.valid) =>
        /\ trip.bearer # ""
        /\ ga.currentToken = trip.bearer
        /\ ga.tokenValidity > now

\* C19: token persistence round-trips across processes: after a successful
\* renewal with a token file configured, the authenticator of the next process
\* holds the same token value and expiry, and while that expiry is in the future
\* its request is forwarded without a token exchange; a missing or malformed
\* token file yields the no-token state.
C19_TokenFileRoundTrip ==
    /\ (trip.process = 2 /\ trip.leftRenewed /\ environ.tokenFile # "") =>
          /\ trip.phase = "built" =>
                /\ ga.currentToken = trip.left.currentToken
                /\ ga.tokenValidity = trip.left.tokenValidity
          /\ (trip.phase = "sent" /\ trip.before.tokenValidity > now) =>
                /\ trip.before.currentToken = trip.left.currentToken
                /\ trip.before.tokenValidity = trip.left.tokenValidity
                /\ trip.forwarded
                /\ trip.resp = NoAnswer
    /\ (trip.phase = "built" /\ (~tokenStore.exists \/ ~tokenStore.wellFormed)) =>
          (ga.currentToken = "" /\ ga.tokenValidity = 0)

\* C20: a renewal exchange answered with a non-200 status, with an error payload
\* or with a token type other than Bearer fails the request that triggered it:
\* RoundTrip returns an error, the request is not forwarded and the
\* authenticator keeps the token it had.
C20_RefusedRenewalFailsRequest ==
    (/\ trip.phase = "sent"
     /\ ~trip.valid
     /\ trip.resp.kind \in {"json", "garbage"}
     /\ (trip.resp.status # 200 \/ trip.resp.Error # "" \/ trip.resp.TokenType # "Bearer"))
    => /\ trip.err # ""
       /\ ~trip.forwarded
       /\ ga = trip.before

\* C21: addDays replaces a day's stored product list with the newly scanned list
\* if and only if the serialized length of the new list differs from the length
\* of the stored value, an absent value counting as length 0; when the lengths
\* are equal the stored value is left as it is, and days that were not scanned
\* are left alone.
C21_ReplacedIffLengthDiffers ==
    [][lastCall'.kind = "addDays" =>
         \A d \in DayKeys :
            IF d \notin DOMAIN lastCall'.dwi THEN db'[d] = db[d]
            ELSE IF StoredLen(db[d].products) # JsonLen(lastCall'.dwi[d])
            THEN db'[d].products = [present |-> TRUE, list |-> lastCall'.dwi[d]]
            ELSE db'[d].products = db[d].products]_vars

\* addDays has left a stored list in place although the scanned list has other
\* contents, of the same serialized length
C21_SameLengthOtherContents ==
    /\ lastCall.kind = "addDays"
    /\ \E d \in DOMAIN lastCall.dwi :
          /\ db[d].products.present
          /\ db[d].products.list # lastCall.dwi[d]
          /\ StoredLen(db[d].products) = JsonLen(lastCall.dwi[d])

\* C22: checkIfEventsStartingSoon goes on to fetch event records only when at
\* least one known session of today's date has a latest start time t with
\* now <= t < now + 5 minutes; when the store holds no bucket for today's date
\* it fetches nothing.
C22_RefreshOnlyWhenSoonToday ==
    (cmd = "check-if-events-starting-soon" /\ pc # "idle") =>
        /\ todayKey \in DayKeys
        /\ db[todayKey].exists
        /\ \E sid \in SessionIds :
              /\ CursorLast(db[todayKey].events[sid]) # 0
              /\ getMostRecentDetails(db[todayKey].events[sid]).err = ""
              /\ ~parseTimeLocally(todayKey,
                     getMostRecentDetails(db[todayKey].events[sid]).val.StartTime).err
              /\ now <= parseTimeLocally(todayKey,
                     getMostRecentDetails(db[todayKey].events[sid]).val.StartTime).t
              /\ parseTimeLocally(todayKey,
                     getMostRecentDetails(db[todayKey].events[sid]).val.StartTime).t
                 < now + soonThreshold

\* C23: checkForEvents with onlyToday = true refreshes only the day bucket whose
\* key equals today's date, and nothing when there is no such bucket; in either
\* mode no bucket dated before today is refreshed.
C23_OnlyTodayRefreshesToday ==
    /\ (cmd = "check-todays-events" /\ pc # "idle") => curDay = todayKey
    /\ (cmd \in {"check-events", "check-todays-events"} /\ pc # "idle") =>
          curDay >= todayKey

\* C29: day/bucket consistency: event records are fetched for the date that is
\* the key of the day bucket being refreshed, and a snapshot is written only
\* under the bucket of the date its record was fetched for.
C29_FetchedDateIsBucketKey ==
    lastCall.kind \in {"fetch", "poll", "cancel"} => lastCall.ctxDay = lastCall.day

\* C24: the only condition that ends a day's cancellation scan early is a session
\* whose latest start time is at or before now: when the scan is over, every
\* stored session that was not observed, starts after now and has no such
\* session before it in key order has cancelled = true in its latest snapshot,
\* whatever unreadable or unparseable sessions lie before it.
C24_ScanEndsOnlyAtStarted ==
    pc = "dayend" =>
        \A sid \in SessionIds :
            (/\ CursorLast(tx[curDay].events[sid]) # 0
             /\ getMostRecentDetails(tx[curDay].events[sid]).err = ""
             /\ ~isSessionInList(sessionIdsSeen, sid)
             /\ ~parseTimeLocally(evCtx.Day,
                    getMostRecentDetails(tx[curDay].events[sid]).val.StartTime).err
             /\ now < parseTimeLocally(evCtx.Day,
                    getMostRecentDetails(tx[curDay].events[sid]).val.StartTime).t
             /\ \A s \in SessionIds :
                   (/\ BytesLess(s, sid)
                    /\ CursorLast(tx[curDay].events[s]) # 0
                    /\ getMostRecentDetails(tx[curDay].events[s]).err = ""
                    /\ ~parseTimeLocally(evCtx.Day,
                           getMostRecentDetails(tx[curDay].events[s]).val.StartTime).err)
                   => now < parseTimeLocally(evCtx.Day,
                           getMostRecentDetails(tx[curDay].events[s]).val.StartTime).t)
            => getMostRecentDetails(tx[curDay].events[sid]).val.Cancelled

\* C25: a cancellation snapshot copies every comparable field of the session's
\* latest snapshot and sets cancelled = true; when a session whose latest
\* snapshot is cancelled is observed again, updateEvent appends a snapshot with
\* cancelled = false (Updated), whether or not the other eight fields changed,
\* and goes on to the calendar sync: with an authenticator a request is made,
\* or the record's times do not convert and the sync is logged as failed.
C25_CancelCopiesObservedRevives ==
    (/\ lastCall.kind \in {"cancel", "poll"}
     /\ ~lastCall.panic
     /\ lastCall.err = ""
     /\ lastCall.keysBefore # {}) =>
        LET b == tx[lastCall.day].events[lastCall.sid]
            prev == UnmarshalEvent(b.kv[Max(lastCall.keysBefore)]).val
            last == getMostRecentDetails(b).val
        IN /\ (lastCall.kind = "cancel" /\ ~prev.Cancelled) =>
                /\ lastCall.action = "Updated"
                /\ Cardinality(lastCall.keysAfter \ lastCall.keysBefore) = 1
                /\ last.Cancelled
                /\ \A f \in ComparableFields \ {"Cancelled"} : last[f] = prev[f]
           /\ (lastCall.kind = "poll" /\ prev.Cancelled) =>
                /\ lastCall.action = "Updated"
                /\ Cardinality(lastCall.keysAfter \ lastCall.keysBefore) = 1
                /\ CursorLast(b) \notin lastCall.keysBefore
                /\ ~last.Cancelled
                /\ lastCall.client = "auth" =>
                      IF \/ parseTimeLocally(lastCall.ctxDay, lastCall.StartTime).err
                         \/ parseTimeLocally(lastCall.ctxDay, lastCall.EndTime).err
                      THEN lastCall.syncFailed
                      ELSE lastCall.reqs # <<>>

\* a cancelled session was observed again with the other eight fields as they
\* were, and a snapshot was appended and a calendar request made for it
C25_RevivedUnchanged ==
    /\ lastCall.kind = "poll"
    /\ lastCall.action = "Updated"
    /\ lastCall.reqs # <<>>
    /\ lastCall.keysBefore # {}
    /\ LET b == tx[lastCall.day].events[lastCall.sid]
           prev == UnmarshalEvent(b.kv[Max(lastCall.keysBefore)]).val
           last == getMostRecentDetails(b).val
       IN /\ prev.Cancelled
          /\ ~last.Cancelled
          /\ \A f \in ComparableFields \ {"Cancelled"} : last[f] = prev[f]

\* C26: a calendar update or insert that fails for any reason other than
\* update-not-found is reported as a failed sync: when the last request of a
\* sync was forwarded and met a network error, a malformed response or an HTTP
\* error status with a JSON body, the sync is logged as failed.
C26_FailedRequestIsFailedSync ==
    (/\ lastCall.reqs # <<>>
     /\ lastCall.reqs[Len(lastCall.reqs)].forwarded
     /\ lastCall.reqs[Len(lastCall.reqs)].outcome \in {"neterr", "garbage", "errjson"})
    => lastCall.syncFailed

\* C27: the observed set of the cancellation scan is the union over all products
\* of the day of the session identifiers fetched in the pass: every record that
\* updateEvent has taken enters the set, nothing leaves it while the day is
\* being refreshed, and the scan gives no cancelled snapshot to a session that
\* is in it.
C27_ObservedNeverCancelled ==
    [][/\ (lastCall'.kind = "poll" /\ pc' # "idle") =>
            \E i \in 1..Len(sessionIdsSeen') : sessionIdsSeen'[i] = lastCall'.sid
       /\ (pc \in {"fetch", "update", "scan"} /\ pc' \notin {"idle", "day"}) =>
            \A i \in 1..Len(sessionIdsSeen) :
                \E j \in 1..Len(sessionIdsSeen') : sessionIdsSeen'[j] = sessionIdsSeen[i]
       /\ lastCall'.kind = "cancel" =>
            \A i \in 1..Len(sessionIdsSeen) : sessionIdsSeen[i] # lastCall'.sid]_vars

\* the scan of a day is over; two sessions known before the pass were returned,
\* one for each product of the day, and both are as they were: not cancelled
C27_BothProductsObserved ==
    /\ pc = "dayend"
    /\ Len(tx[curDay].products.list) = 2
    /\ Len(sessionIdsSeen) = 2
    /\ sessionIdsSeen[1] # sessionIdsSeen[2]
    /\ \A sid \in SessionIds :
          /\ CursorLast(db[curDay].events[sid]) # 0
          /\ now < parseTimeLocally(evCtx.Day,
                       getMostRecentDetails(tx[curDay].events[sid]).val.StartTime).t
          /\ ~getMostRecentDetails(tx[curDay].events[sid]).val.Cancelled

\* C28: cancellation inference never acts on a partial observation: when
\* getEventsInfo has failed for a product of a day the pass has ended with an
\* error and the store is as it was when the pass began, and the scan makes its
\* calls only after every product of the day has been fetched.
C28_FailedFetchAbortsPass ==
    /\ (lastCall.kind = "fetch" /\ lastCall.err # "") =>
          /\ pc = "idle"
          /\ result = "error"
          /\ tx = db
          /\ db = dbBefore
    /\ (pc = "scan" \/ (lastCall.kind = "cancel" /\ pc # "idle")) =>
          prodIdx > Len(tx[curDay].products.list)

\* getEventsInfo failed for the second product of a day on which a stored
\* session, not yet started and not cancelled, was waiting for the scan
C28_SecondProductFailed ==
    /\ lastCall.kind = "fetch"
    /\ lastCall.err # ""
    /\ lastCall.product = "p2"
    /\ \E sid \in SessionIds :
          /\ CursorLast(db[lastCall.day].events[sid]) # 0
          /\ ~getMostRecentDetails(db[lastCall.day].events[sid]).val.Cancelled
          /\ now < parseTimeLocally(lastCall.ctxDay,
                       getMostRecentDetails(db[lastCall.day].events[sid]).val.StartTime).t

\* C30: a renewal that returns an error leaves the authenticator's in-memory
\* token and expiry exactly as they were before the call, whatever made it
\* fail, a failure to write the token file included.
C30_FailedRenewalKeepsToken ==
    (trip.phase = "sent" /\ ~trip.valid /\ trip.err # "")
    => /\ ga.currentToken = trip.before.currentToken
       /\ ga.tokenValidity = trip.before.tokenValidity

=============================================================================
